---- MODULE Spec2Model ----
(***************************************************************************)
(* HoneyPipe (src/honeypipe.py): Step, the >> glue, and the three gates    *)
(* _condition, conditional_func and conditional_proc.                      *)
(*                                                                         *)
(* Python objects live in two heaps: `steps` holds the Step objects (the   *)
(* index is the object's identity, the record its attribute f) and `dicts` *)
(* holds the dictionaries of one pipeline run (dict 1 is the context the   *)
(* caller pipes in).  One run of `context >> step` is one action; what it  *)
(* did is kept in arg/before/ret/exc/log.                                  *)
(***************************************************************************)
EXTENDS Integers, Sequences, FiniteSets, TLC

VARIABLES steps,    \* heap of Step objects: steps[i].f is the wrapped callable
          dicts,    \* heap of dicts of the last run; dicts[1] is the context
          mode,     \* "": nothing run yet, "pipe": context >> step, "await": await step.f(context)
          arg,      \* the Step the last run applied (0: none)
          before,   \* contents of the context when the last run started
          ret,      \* what the last run returned (a Python value)
          exc,      \* the error the last run raised ("" when it returned)
          log       \* events of the last run, oldest first

vars == <<steps, dicts, mode, arg, before, ret, exc, log>>

(***************************************************************************)
(* Bounds of the model.                                                    *)
(***************************************************************************)
MaxSteps == 8       \* Step objects on the heap in the chaining specification
MaxGateSteps == 1   \* Step objects on the heap in the gate specification

(***************************************************************************)
(* Python values.                                                          *)
(***************************************************************************)
None == [ty |-> "none", v |-> 0]
IntVal(n) == [ty |-> "int", v |-> n]
DictRef(i) == [ty |-> "dict", v |-> i]
Coroutine(i) == [ty |-> "coro", v |-> i]

\* store_return_as: str | None.  <<>> is None, <<k>> is the string k.
NoKey == <<>>
Key(k) == <<k>>

\* Python truth value of a str | None
Truthy(s) == s # NoKey /\ s[1] # ""

(***************************************************************************)
(* Caller-supplied functions and predicates.  The code receives them as    *)
(* opaque callables; the model describes each by what calling it does.     *)
(*   params: the declared parameters, as inspect.signature reports them    *)
(*   body:   "set"   d[key] = val, returns None   (a procedure over d)     *)
(*           "copy"  returns dict(d), a new dict   (a procedure over d)    *)
(*           "sum"   returns the sum of its arguments                      *)
(*           "none"  returns None                                          *)
(*           "raise" raises                                                *)
(***************************************************************************)
Param(n, k, hd, dv) == [name |-> n, kind |-> k, hasdefault |-> hd, default |-> dv]
Required(n) == Param(n, "POSITIONAL_OR_KEYWORD", FALSE, 0)
Defaulted(n, dv) == Param(n, "POSITIONAL_OR_KEYWORD", TRUE, dv)
KeywordOnly(n) == Param(n, "KEYWORD_ONLY", FALSE, 0)
PositionalOnly(n) == Param(n, "POSITIONAL_ONLY", FALSE, 0)

Function(n, a, ps, b, k, x) ==
    [name |-> n, isasync |-> a, params |-> ps, body |-> b, key |-> k, val |-> x]
NoFunction == Function("", FALSE, <<>>, "none", "", 0)

\* def f(d): d[k] = x          and          async def f(d): d[k] = x
Setter(n, k, x) == Function(n, FALSE, <<Required("d")>>, "set", k, x)
AsyncSetter(n, k, x) == Function(n, TRUE, <<Required("d")>>, "set", k, x)

\* predicates: lambda d: True, lambda d: False, lambda d: d[k] > 0
Always == [kind |-> "const", b |-> TRUE, key |-> ""]
Never == [kind |-> "const", b |-> FALSE, key |-> ""]
Positive(k) == [kind |-> "key", b |-> FALSE, key |-> k]

\* predicate(d): the value, or the error the lookup d[k] > 0 raises
EvalPredicate(p, d) ==
    IF p.kind = "const" THEN [val |-> p.b, exc |-> ""]
    ELSE IF p.key \notin DOMAIN d THEN [val |-> FALSE, exc |-> "KeyError"]
    ELSE IF d[p.key].ty # "int" THEN [val |-> FALSE, exc |-> "TypeError"]
    ELSE [val |-> d[p.key].v > 0, exc |-> ""]

(***************************************************************************)
(* Events of a run and the outcome of a call.                              *)
(***************************************************************************)
NoArgs == [k \in {} |-> None]
Event(e, n, kw) == [ev |-> e, fn |-> n, kw |-> kw]
Outcome(ds, lg, rv, ex) == [dicts |-> ds, log |-> lg, ret |-> rv, exc |-> ex]

\* d[k] = v on a dict's contents
SetItem(d, k, v) == (k :> v) @@ d

RECURSIVE SumArgs(_, _, _)
SumArgs(ps, kw, i) ==
    IF i > Len(ps) THEN 0
    ELSE (IF ps[i].name \in DOMAIN kw THEN kw[ps[i].name].v ELSE ps[i].default)
         + SumArgs(ps, kw, i + 1)

Binds(p) == p.kind \in {"POSITIONAL_OR_KEYWORD", "KEYWORD_ONLY"}

\* Python's binding of func(**kw): a required parameter left unbound (a
\* positional-only one cannot be bound by name) or a name no parameter takes,
\* is a TypeError; a parameter left unbound takes its default.
BindError(func, kw) ==
    \/ \E i \in DOMAIN func.params :
          /\ ~func.params[i].hasdefault
          /\ ~(Binds(func.params[i]) /\ func.params[i].name \in DOMAIN kw)
    \/ \E k \in DOMAIN kw :
          ~\E i \in DOMAIN func.params :
              Binds(func.params[i]) /\ func.params[i].name = k

\* the body of a function over named arguments: [ret, exc]
CallBody(func, kw) ==
    IF func.body = "raise" THEN [ret |-> None, exc |-> "UserError"]
    ELSE IF func.body = "sum" THEN
        IF \E k \in DOMAIN kw : kw[k].ty # "int"
        THEN [ret |-> None, exc |-> "TypeError"]
        ELSE [ret |-> IntVal(SumArgs(func.params, kw, 1)), exc |-> ""]
    ELSE [ret |-> None, exc |-> ""]

\* calling an `async def` only makes a coroutine object; its body has not started
MakeCoroutine(n, ds, lg) ==
    Outcome(ds, Append(lg, Event("coroutine", n, NoArgs)),
            Coroutine(1 + Cardinality({i \in DOMAIN lg : lg[i].ev = "coroutine"})), "")

\* func(**kw), awaited (aw) or not: the arguments are bound at the call, and an
\* `async def` that is not awaited stops there with its coroutine object
CallKw(func, kw, ds, lg, aw) ==
    LET lg1 == Append(lg, Event("call", func.name, kw))
        r == CallBody(func, kw)
    IN  IF BindError(func, kw)
        THEN Outcome(ds, Append(lg1, Event("raise", func.name, NoArgs)), None, "TypeError")
        ELSE IF func.isasync /\ ~aw THEN MakeCoroutine(func.name, ds, lg1)
        ELSE IF r.exc # ""
        THEN Outcome(ds, Append(lg1, Event("raise", func.name, NoArgs)), None, r.exc)
        ELSE Outcome(ds, Append(lg1, Event("return", func.name, NoArgs)), r.ret, "")

\* func(d), awaited (aw) or not
CallDict(func, d, ds, lg, aw) ==
    LET lg1 == Append(lg, Event("call", func.name, NoArgs))
        done == Append(lg1, Event("return", func.name, NoArgs))
    IN  CASE func.isasync /\ ~aw -> MakeCoroutine(func.name, ds, lg1)
          [] func.body = "raise" ->
               Outcome(ds, Append(lg1, Event("raise", func.name, NoArgs)), None, "UserError")
          [] func.body = "set" ->
               Outcome([ds EXCEPT ![d] = SetItem(@, func.key, IntVal(func.val))], done, None, "")
          [] func.body = "copy" ->
               Outcome(Append(ds, ds[d]), done, DictRef(Len(ds) + 1), "")
          [] OTHER -> Outcome(ds, done, None, "")

(***************************************************************************)
(* Callables: what a Step's attribute f may hold.                          *)
(*   "function"      a caller's function over the dict                     *)
(*   "Step"          another Step object (Step(Step(...))), by reference   *)
(*   "lambda"        the closure of Step.__rshift__ over self and other    *)
(*   "wrapper", "async_wrapper"   the closures of _condition               *)
(*   "sync_gate", "async_gate"    the closures of conditional_func         *)
(*   "gated", "async_gated"       the closures of conditional_proc         *)
(***************************************************************************)
Callable(t, r, s, o, p, fn, st, nd) ==
    [t |-> t, ref |-> r, self |-> s, other |-> o, predicate |-> p, func |-> fn,
     store_return_as |-> st, needed |-> nd]
Bare(fn) == Callable("function", 0, 0, 0, Always, fn, NoKey, <<>>)
StepObject(i) == Callable("Step", i, 0, 0, Always, NoFunction, NoKey, <<>>)
Lambda(s, o) == Callable("lambda", 0, s, o, Always, NoFunction, NoKey, <<>>)

AsyncKinds == {"async_wrapper", "async_gate", "async_gated"}

\* asyncio.iscoroutinefunction(f) for a callable
IsCoroutineFunction(f) ==
    \/ f.t \in AsyncKinds
    \/ f.t = "function" /\ f.func.isasync

\* _condition(predicate)(func): a plain callable, not a Step
_condition(predicate, func) ==
    Callable(IF func.isasync THEN "async_wrapper" ELSE "wrapper",
             0, 0, 0, predicate, func, NoKey, <<>>)

\* the declared names conditional_func binds from the dict
IsNeeded(p) == p.kind \in {"POSITIONAL_OR_KEYWORD", "KEYWORD_ONLY"}
Needed(func) ==
    LET ps == SelectSeq(func.params, IsNeeded)
    IN  [i \in DOMAIN ps |-> ps[i].name]

\* Step.__init__: the new object
Step__init__(f) == [f |-> f]

\* a decorator that always takes the synchronous closure
ChooseSyncGate(isasync) == "sync_gate"

\* gate = async_gate if asyncio.iscoroutinefunction(func) else sync_gate
ChooseGate(isasync) == IF isasync THEN "async_gate" ELSE "sync_gate"

\* conditional_func(predicate, store_return_as=...)(func)
conditional_func(predicate, store_return_as, func) ==
    Step__init__(Callable(ChooseGate(func.isasync),
                          0, 0, 0, predicate, func, store_return_as, Needed(func)))

\* conditional_proc(predicate)(func)
conditional_proc(predicate, func) ==
    Step__init__(Callable(IF func.isasync THEN "async_gated" ELSE "gated",
                          0, 0, 0, predicate, func, NoKey, <<>>))

(***************************************************************************)
(* The gates' bodies.                                                      *)
(***************************************************************************)
\* a gate that forgets its predicate
GateAlwaysOpen(b) == TRUE

\* `if predicate(d):` the branch is taken when the predicate's value is true
GateOpen(b) == b

\* `if store_return_as:` the result is stored when the key is truthy
ShouldStore(store_return_as) == Truthy(store_return_as)

\* func(**d): the whole dict as the arguments
BindWholeDict(needed, d) == d

\* {k: d[k] for k in needed if k in d}
BindArgs(needed, d) ==
    [k \in {needed[i] : i \in DOMAIN needed} \cap DOMAIN d |-> d[k]]

\* a gate that swallows the error of its predicate
PredicateSwallowed(g, p, ds, lg) ==
    Outcome(ds, Append(lg, Event("raise", g.func.name, NoArgs)), None, "")

\* predicate(d) raised: nothing catches it
PredicateRaised(g, p, ds, lg) ==
    Outcome(ds, Append(lg, Event("raise", g.func.name, NoArgs)), None, p.exc)

\* `func(...)` in the sync closures, `await func(...)` in the async ones
Awaits(g) == g.t \in AsyncKinds

\* the body of sync_gate, and of async_gate once it is awaited
GateBody(g, d, ds, lg) ==
    LET p == EvalPredicate(g.predicate, ds[d])
        lg1 == Append(lg, Event("predicate", g.func.name, NoArgs))
        r == CallKw(g.func, BindArgs(g.needed, ds[d]), ds, lg1, Awaits(g))
    IN  IF p.exc # "" THEN PredicateRaised(g, p, ds, lg1)
        ELSE IF ~GateOpen(p.val) THEN Outcome(ds, lg1, None, "")
        ELSE IF r.exc # "" THEN r
        ELSE IF ShouldStore(g.store_return_as)
        THEN Outcome([r.dicts EXCEPT ![d] = SetItem(@, g.store_return_as[1], r.ret)],
                     r.log, None, "")
        ELSE Outcome(r.dicts, r.log, None, "")

\* the body of conditional_proc's gated, sync or (awaited) async
GatedBody(g, d, ds, lg) ==
    LET p == EvalPredicate(g.predicate, ds[d])
        lg1 == Append(lg, Event("predicate", g.func.name, NoArgs))
        r == CallDict(g.func, d, ds, lg1, Awaits(g))
    IN  IF p.exc # "" THEN PredicateRaised(g, p, ds, lg1)
        ELSE IF ~GateOpen(p.val) THEN Outcome(ds, lg1, None, "")
        ELSE IF r.exc # "" THEN r
        ELSE Outcome(r.dicts, r.log, None, "")

\* the body of _condition's wrapper, sync or (awaited) async
WrapperBody(g, d, ds, lg) ==
    LET p == EvalPredicate(g.predicate, ds[d])
        lg1 == Append(lg, Event("predicate", g.func.name, NoArgs))
    IN  IF p.exc # "" THEN PredicateRaised(g, p, ds, lg1)
        ELSE IF ~GateOpen(p.val) THEN Outcome(ds, lg1, None, "")
        ELSE CallDict(g.func, d, ds, lg1, Awaits(g))

\* the body of a plain callable f applied to the dict
Body(f, d, ds, lg) ==
    CASE f.t \in {"sync_gate", "async_gate"} -> GateBody(f, d, ds, lg)
      [] f.t \in {"gated", "async_gated"} -> GatedBody(f, d, ds, lg)
      [] f.t \in {"wrapper", "async_wrapper"} -> WrapperBody(f, d, ds, lg)
      [] OTHER -> CallDict(f.func, d, ds, lg, TRUE)

\* the end of a body that did not raise
Exit(f, r) ==
    IF r.exc # "" THEN r
    ELSE [r EXCEPT !.log = Append(@, Event("exit", f.func.name, NoArgs))]

\* f(d) for a synchronous plain callable: its body runs inside the call
Plain(f, d, ds, lg) ==
    Exit(f, Body(f, d, ds, Append(lg, Event("enter", f.func.name, NoArgs))))

\* await f(d) for a coroutine function: the coroutine is made and run to its end
Awaited(f, d, ds, lg) ==
    Exit(f, Body(f, d, ds, MakeCoroutine(f.func.name, ds, lg).log))

(***************************************************************************)
(* Step: __call__, __rrshift__, __rshift__.                                *)
(***************************************************************************)
\* a Step that forwards what f returned
StepReturnsResult(d, rv) == rv

\* `return d`: what Step.__call__ returns, given the dict and f's own result
StepReturn(d, rv) == DictRef(d)

\* a closure that runs the right operand first
TupleOrderSwapped(self, other) == <<other, self>>

\* a closure that runs the right operand twice
TupleOrderTwice(self, other) == <<self, other, other>>

\* (self(d), other(d)): the Steps the closure of __rshift__ calls, in order
TupleOrder(self, other) == <<self, other>>

\* [1]: the element of that tuple the closure returns (Python counts from 0)
TupleIndex == 1

RECURSIVE Step__call__(_, _, _, _, _), CallF(_, _, _, _, _), CallTuple(_, _, _, _, _, _)

\* self.f(d); return d
Step__call__(hs, self, d, ds, lg) ==
    LET r == CallF(hs, hs[self].f, d, ds, lg)
    IN  IF r.exc # "" THEN r
        ELSE Outcome(r.dicts, r.log, StepReturn(d, r.ret), "")

\* f(d) for a callable f, as a plain (not awaited) call
CallF(hs, f, d, ds, lg) ==
    CASE IsCoroutineFunction(f) -> MakeCoroutine(f.func.name, ds, lg)
      [] f.t = "Step" -> Step__call__(hs, f.ref, d, ds, lg)
      [] f.t = "lambda" ->
           LET r == CallTuple(hs, TupleOrder(f.self, f.other), d, ds, lg, <<>>)
           IN  IF r.exc # "" THEN r
               ELSE Outcome(r.dicts, r.log, r.ret[TupleIndex + 1], "")
      [] OTHER -> Plain(f, d, ds, lg)

\* the tuple display (s1(d), s2(d), ...): left to right, stopping at an error;
\* ret is the tuple of results
CallTuple(hs, ss, d, ds, lg, rets) ==
    IF ss = <<>> THEN Outcome(ds, lg, rets, "")
    ELSE LET r == Step__call__(hs, Head(ss), d, ds, lg)
         IN  IF r.exc # "" THEN r
             ELSE CallTuple(hs, Tail(ss), d, r.dicts, r.log, Append(rets, r.ret))

\* d >> step
Step__rrshift__(hs, self, d, ds, lg) == Step__call__(hs, self, d, ds, lg)

\* step >> other: the heap with Step(other) and the composite Step added;
\* the composite is the last object
Step__rshift__(hs, self, other) ==
    LET hs1 == Append(hs, Step__init__(other))
    IN  Append(hs1, Step__init__(Lambda(self, Len(hs1))))

(***************************************************************************)
(* The caller's side: the functions, predicates and contexts the actions   *)
(* draw from.                                                              *)
(***************************************************************************)
EmptyDict == [k \in {} |-> None]
Dict1(k, x) == k :> IntVal(x)
Dict2(k, x, l, y) == (k :> IntVal(x)) @@ (l :> IntVal(y))

\* the functions over named arguments
hyp == Function("hyp", FALSE, <<Required("x"), Required("y")>>, "sum", "", 0)
hyp_default == Function("hyp_default", FALSE, <<Required("x"), Defaulted("y", 1)>>, "sum", "", 0)
hyp_kwonly == Function("hyp_kwonly", FALSE, <<Defaulted("x", 2), KeywordOnly("y")>>, "sum", "", 0)
hyp_posonly == Function("hyp_posonly", FALSE, <<PositionalOnly("x"), Defaulted("y", 1)>>, "sum", "", 0)
fail == Function("fail", FALSE, <<Required("x")>>, "raise", "", 0)
async_hyp == Function("async_hyp", TRUE, <<Required("x"), Defaulted("y", 1)>>, "sum", "", 0)
ValueFunctions == {hyp, hyp_default, hyp_kwonly, hyp_posonly, fail, async_hyp}

\* the functions over the dict
mark == Setter("mark", "out", 5)
boom == Function("boom", FALSE, <<Required("d")>>, "raise", "", 0)
clone == Function("clone", FALSE, <<Required("d")>>, "copy", "", 0)
async_mark == AsyncSetter("async_mark", "out", 5)
Procedures == {mark, boom, clone, async_mark}

Predicates == {Always, Never, Positive("x")}
StoreKeys == {NoKey, Key(""), Key("out"), Key("x")}
GateContexts ==
    { EmptyDict,
      Dict1("x", 1),
      Dict2("x", 1, "z", 3),
      Dict2("x", 0, "y", 2),
      Dict2("x", 1, "y", 2) @@ Dict1("z", 3),
      Dict2("x", 2, "y", 1) @@ Dict2("out", 7, "", 7) }

\* the Steps a module defines before any pipeline is chained
first == conditional_proc(Always, Setter("first", "x", 1))
second == conditional_func(Positive("x"), Key("y"),
              Function("second", FALSE, <<Required("x"), Required("w")>>, "sum", "", 0))
third == conditional_proc(Always, AsyncSetter("third", "x", 2))
fourth == conditional_func(Positive("w"), Key("x"),
              Function("fourth", TRUE, <<Required("w")>>, "sum", "", 0))
Library == <<first, second, third, fourth>>
BareCallables == {Bare(clone)}
ChainContexts == {Dict1("w", 1), Dict1("x", 2), Dict2("x", 0, "w", 1)}

\* explicit Step(...) calls of the caller: the plain wrappers no >> made
Wraps(hs) ==
    {i \in DOMAIN hs :
        /\ hs[i].f.t \in {"function", "Step"}
        /\ ~\E j \in DOMAIN hs : hs[j].f.t = "lambda" /\ hs[j].f.other = i}
MaxWraps == 1

(***************************************************************************)
(* Actions.                                                                *)
(***************************************************************************)
NoRun ==
    /\ dicts = <<>>
    /\ mode = ""
    /\ arg = 0
    /\ before = EmptyDict
    /\ ret = None
    /\ exc = ""
    /\ log = <<>>

\* the caller drops the context of the finished run
Discard ==
    /\ mode # ""
    /\ dicts' = <<>>
    /\ mode' = ""
    /\ arg' = 0
    /\ before' = EmptyDict
    /\ ret' = None
    /\ exc' = ""
    /\ log' = <<>>
    /\ UNCHANGED steps

Ran(m, s, c, r) ==
    /\ mode' = m
    /\ arg' = s
    /\ before' = c
    /\ dicts' = r.dicts
    /\ log' = r.log
    /\ exc' = r.exc
    /\ ret' = IF r.exc = "" THEN r.ret ELSE None

UnchangedRun == UNCHANGED <<dicts, mode, arg, before, ret, exc, log>>

\* context >> step, for a fresh context with contents c; one context is driven
\* through one pipeline at a time
Pipe(cs) ==
    \E s \in DOMAIN steps, c \in cs :
        /\ mode = ""
        /\ Ran("pipe", s, c, Step__rrshift__(steps, s, 1, <<c>>, <<>>))
        /\ UNCHANGED steps

\* await step.f(context), for a Step over a coroutine function
Await(cs) ==
    \E s \in DOMAIN steps, c \in cs :
        /\ mode = ""
        /\ IsCoroutineFunction(steps[s].f)
        /\ Ran("await", s, c, Awaited(steps[s].f, 1, <<c>>, <<>>))
        /\ UNCHANGED steps

\* Step(f), f a plain callable or a Step
NewStep ==
    /\ Len(steps) < MaxSteps
    /\ Cardinality(Wraps(steps)) < MaxWraps
    /\ \E f \in BareCallables \cup {StepObject(i) : i \in DOMAIN steps} :
          steps' = Append(steps, Step__init__(f))
    /\ UnchangedRun

\* step >> other, other a plain callable or a Step
Chain ==
    /\ Len(steps) + 2 <= MaxSteps
    /\ \E self \in DOMAIN steps :
       \E other \in BareCallables \cup {StepObject(i) : i \in DOMAIN steps} :
          steps' = Step__rshift__(steps, self, other)
    /\ UnchangedRun

\* @conditional_func(predicate, store_return_as=key) def func(...)
DecorateFunc ==
    /\ Len(steps) < MaxGateSteps
    /\ \E p \in Predicates, k \in StoreKeys, fn \in ValueFunctions :
          steps' = Append(steps, conditional_func(p, k, fn))
    /\ UnchangedRun

\* @conditional_proc(predicate) def func(d)
DecorateProc ==
    /\ Len(steps) < MaxGateSteps
    /\ \E p \in Predicates, fn \in Procedures :
          steps' = Append(steps, conditional_proc(p, fn))
    /\ UnchangedRun

\* Step(_condition(predicate)(func))
DecorateCondition ==
    /\ Len(steps) < MaxGateSteps
    /\ \E p \in Predicates, fn \in Procedures :
          steps' = Append(steps, Step__init__(_condition(p, fn)))
    /\ UnchangedRun

\* chaining: the module's Steps exist, the caller chains them and pipes contexts in
Init == steps = Library /\ NoRun
Next == NewStep \/ Chain \/ Pipe(ChainContexts) \/ Discard
Spec == Init /\ [][Next]_vars

\* gates: the caller decorates a function and runs the Step it gets
InitGate == steps = <<>> /\ NoRun
NextGate ==
    \/ DecorateFunc
    \/ DecorateProc
    \/ DecorateCondition
    \/ Pipe(GateContexts)
    \/ Await(GateContexts)
    \/ Discard
SpecGate == InitGate /\ [][NextGate]_vars

(***************************************************************************)
(* Reading a run: the chain as it was built, and the log as it happened.   *)
(***************************************************************************)
\* the plain-callable Steps of a chain, in the order the chain was written
RECURSIVE Leaves(_, _)
Leaves(hs, s) ==
    CASE hs[s].f.t = "Step" -> Leaves(hs, hs[s].f.ref)
      [] hs[s].f.t = "lambda" -> Leaves(hs, hs[s].f.self) \o Leaves(hs, hs[s].f.other)
      [] OTHER -> <<s>>

LeafNames(hs, s) ==
    LET ls == Leaves(hs, s) IN [i \in DOMAIN ls |-> hs[ls[i]].f.func.name]

\* the functions whose call began, in the order of the log
IsStart(e) == e.ev \in {"enter", "coroutine"}
Started(lg) ==
    LET es == SelectSeq(lg, IsStart) IN [i \in DOMAIN es |-> es[i].fn]

Count(lg, e, n) == Cardinality({i \in DOMAIN lg : lg[i].ev = e /\ lg[i].fn = n})
IsPrefix(a, b) == Len(a) <= Len(b) /\ SubSeq(b, 1, Len(a)) = a

Piped == mode = "pipe"
Returned == mode = "pipe" /\ exc = ""

(***************************************************************************)
(* C1. Identity preservation: applying a Step, single or chained, to a     *)
(* context returns that very context object, whatever the wrapped          *)
(* callables return.                                                       *)
(***************************************************************************)
C1_IdentityPreserved == Returned => ret = DictRef(1)

\* a chain that ran a callable returning another dict, and returned
C1_Witness ==
    /\ Returned
    /\ steps[arg].f.t = "lambda"
    /\ Len(dicts) > 1
    /\ dicts[2] = dicts[1]

(***************************************************************************)
(* C2. Sequential ordering: the functions of a chain start in construction *)
(* order, and whenever one starts, every function started before it has    *)
(* run to its end, for synchronous and asynchronous functions alike.       *)
(***************************************************************************)
EndedBefore(lg, i, j) ==
    \E k \in (i + 1)..(j - 1) : lg[k].ev \in {"exit", "raise"} /\ lg[k].fn = lg[i].fn

C2_SequentialOrdering ==
    Piped =>
        /\ IsPrefix(Started(log), LeafNames(steps, arg))
        /\ \A i, j \in DOMAIN log :
              (i < j /\ IsStart(log[i]) /\ IsStart(log[j])) => EndedBefore(log, i, j)

\* the same for the chains of synchronous functions only
C2_SynchronousOrdering ==
    (Piped /\ \A i \in DOMAIN log : log[i].ev # "coroutine") => C2_SequentialOrdering

(***************************************************************************)
(* C3. Associativity: (a >> b) >> d and a >> (b >> d) run on equal         *)
(* contexts call the wrapped functions in the same order a, b, d and leave *)
(* the same contents.  The run of one grouping is the last run; the other  *)
(* grouping is built from the same three Steps and run on the same         *)
(* contents.                                                               *)
(***************************************************************************)
IsChain(s) == steps[s].f.t = "lambda"
Left(s) == steps[s].f.self
Right(s) == steps[s].f.other

\* (a >> b) >> d: the left operand is itself a chain
LeftNested(s) == IsChain(s) /\ IsChain(Left(s))
\* a >> (b >> d): the right operand is a chain
RightNested(s) ==
    /\ IsChain(s)
    /\ steps[Right(s)].f.t = "Step"
    /\ IsChain(steps[Right(s)].f.ref)

\* a >> (b >> d) from the operands of s = (a >> b) >> d
Rightwards(s) ==
    LET bd == Step__rshift__(steps, Right(Left(s)), StepObject(Right(s)))
    IN  Step__rshift__(bd, Left(Left(s)), StepObject(Len(bd)))
\* (a >> b) >> d from the operands of s = a >> (b >> d)
Leftwards(s) ==
    LET ab == Step__rshift__(steps, Left(s), StepObject(Left(steps[Right(s)].f.ref)))
    IN  Step__rshift__(ab, Len(ab), StepObject(Right(steps[Right(s)].f.ref)))

SameRun(hs) ==
    LET r == Step__rrshift__(hs, Len(hs), 1, <<before>>, <<>>)
    IN  /\ r.log = log
        /\ r.dicts = dicts
        /\ r.exc = exc

C3_Associative ==
    Piped =>
        /\ LeftNested(arg) =>
              /\ SameRun(Rightwards(arg))
              /\ IsPrefix(Started(log), LeafNames(steps, Left(Left(arg)))
                                        \o LeafNames(steps, Right(Left(arg)))
                                        \o LeafNames(steps, Right(arg)))
        /\ RightNested(arg) =>
              /\ SameRun(Leftwards(arg))
              /\ IsPrefix(Started(log), LeafNames(steps, Left(arg))
                                        \o LeafNames(steps, Left(steps[Right(arg)].f.ref))
                                        \o LeafNames(steps, Right(steps[Right(arg)].f.ref)))

\* (first >> second) >> first ran to its end: second read what first wrote,
\* so another order would leave other contents
C3_Witness ==
    /\ Returned
    /\ LeftNested(arg)
    /\ Started(log) = <<"first", "second", "first">>
    /\ before = Dict1("w", 1)
    /\ dicts[1] = Dict2("x", 1, "w", 1) @@ Dict1("y", 2)

(***************************************************************************)
(* The gate of the last run and its predicate on the context piped in.     *)
(***************************************************************************)
Gate == steps[arg].f
IsFuncGate(f) == f.t \in {"sync_gate", "async_gate"}
IsProcGate(f) == f.t \in {"gated", "async_gated"}
PipedGate == Piped /\ (IsFuncGate(Gate) \/ IsProcGate(Gate))
PredicateIs(b) == EvalPredicate(Gate.predicate, before) = [val |-> b, exc |-> ""]

(***************************************************************************)
(* C4. Gate suppression: a conditional_func or conditional_proc Step whose *)
(* predicate is false on the context never calls the wrapped function and  *)
(* leaves the context as it was: no key changed, none added.               *)
(***************************************************************************)
C4_GateSuppression ==
    (PipedGate /\ PredicateIs(FALSE)) =>
        /\ Count(log, "call", Gate.func.name) = 0
        /\ dicts = <<before>>
        /\ exc = ""

\* hyp gated by d['x'] > 0 with store_return_as="out", on {x: 0, y: 2}
C4_Witness ==
    /\ PipedGate /\ PredicateIs(FALSE)
    /\ Gate.t = "sync_gate"
    /\ Gate.predicate = Positive("x")
    /\ Gate.store_return_as = Key("out")
    /\ "out" \notin DOMAIN before

(***************************************************************************)
(* C5. Gate pass-through: a conditional_func or conditional_proc Step      *)
(* whose predicate is true on the context calls the wrapped function       *)
(* exactly once in one run, and the function has returned when the run     *)
(* returns.                                                                *)
(***************************************************************************)
C5_GatePassThrough ==
    (PipedGate /\ PredicateIs(TRUE)) =>
        /\ Count(log, "call", Gate.func.name) = 1
        /\ exc = "" => Count(log, "return", Gate.func.name) = 1

\* the same for the Steps over synchronous functions only
C5_SynchronousPassThrough ==
    (PipedGate /\ ~Gate.func.isasync) => C5_GatePassThrough

(***************************************************************************)
(* C6. Result storage: after a run of a conditional_func Step in which the *)
(* predicate is true and the function returns v, context[store_return_as]  *)
(* is v for every key given, the empty string included; with no key given  *)
(* the Step writes nothing.                                                *)
(***************************************************************************)
Returns == CallBody(Gate.func, BindArgs(Needed(Gate.func), before)).ret

C6_ResultStorage ==
    (Returned /\ IsFuncGate(Gate) /\ PredicateIs(TRUE)
              /\ Count(log, "return", Gate.func.name) = 1) =>
        IF Gate.store_return_as = NoKey
        THEN dicts = <<before>>
        ELSE /\ Gate.store_return_as[1] \in DOMAIN dicts[1]
             /\ dicts[1][Gate.store_return_as[1]] = Returns

\* the same for the keys other than the empty string
C6_NonEmptyKeyStorage ==
    (arg # 0 /\ Gate.store_return_as # Key("")) => C6_ResultStorage

(***************************************************************************)
(* C7. Selective parameter binding: a conditional_func Step whose          *)
(* predicate is true calls the function with exactly {k: context[k]} for   *)
(* the declared positional-or-keyword and keyword-only names k that are    *)
(* keys of the context; a required name that is absent makes the call fail *)
(* with a TypeError, an absent name with a default takes the default.      *)
(***************************************************************************)
Declared(fn) ==
    {fn.params[i].name : i \in {j \in DOMAIN fn.params :
        fn.params[j].kind \in {"POSITIONAL_OR_KEYWORD", "KEYWORD_ONLY"}}}
RequiredNames(fn) ==
    {fn.params[i].name : i \in {j \in DOMAIN fn.params :
        /\ fn.params[j].kind \in {"POSITIONAL_OR_KEYWORD", "KEYWORD_ONLY"}
        /\ ~fn.params[j].hasdefault}}
AllDeclared(fn) == \A i \in DOMAIN fn.params : fn.params[i].name \in Declared(fn)
RECURSIVE SumWithDefaults(_, _, _)
SumWithDefaults(fn, d, i) ==
    IF i > Len(fn.params) THEN 0
    ELSE (IF fn.params[i].name \in DOMAIN d THEN d[fn.params[i].name].v
          ELSE fn.params[i].default) + SumWithDefaults(fn, d, i + 1)

FuncGateRan ==
    /\ mode # ""
    /\ IsFuncGate(Gate)
    /\ (mode = "await") = Gate.func.isasync
    /\ PredicateIs(TRUE)

C7_SelectiveBinding ==
    FuncGateRan =>
        /\ \E i \in DOMAIN log :
              /\ log[i] = Event("call", Gate.func.name,
                                [k \in Declared(Gate.func) \cap DOMAIN before |-> before[k]])
              /\ \A j \in DOMAIN log : log[j].ev = "call" => j = i
        /\ ~(RequiredNames(Gate.func) \subseteq DOMAIN before) => exc = "TypeError"
        /\ (RequiredNames(Gate.func) \subseteq DOMAIN before /\ AllDeclared(Gate.func)
               /\ Gate.func.body = "sum") =>
              /\ exc = ""
              /\ Truthy(Gate.store_return_as) =>
                    dicts[1][Gate.store_return_as[1]]
                        = IntVal(SumWithDefaults(Gate.func, before, 1))

\* f(x, y=1) on a context that holds x, not y, and a key z that f does not declare
C7_Witness ==
    /\ FuncGateRan
    /\ Gate.func = hyp_default
    /\ Gate.store_return_as = Key("out")
    /\ before = Dict2("x", 1, "z", 3)
    /\ dicts[1]["out"] = IntVal(2)

(***************************************************************************)
(* C8. Idempotent wrapping: coercing a right operand that is already a     *)
(* Step (the same Step on both sides of >>, a Step wrapped again) does not *)
(* apply it twice: in a run, every occurrence of a Step in the chain       *)
(* starts its function exactly once; and chaining leaves the Steps that    *)
(* exist as they are.                                                      *)
(***************************************************************************)
Occurrences(ns, n) == Cardinality({i \in DOMAIN ns : ns[i] = n})

OncePerOccurrence ==
    Returned =>
        \A n \in {LeafNames(steps, arg)[i] : i \in DOMAIN LeafNames(steps, arg)}
               \cup {Started(log)[i] : i \in DOMAIN Started(log)} :
            Occurrences(Started(log), n) = Occurrences(LeafNames(steps, arg), n)

OperandsKept ==
    \A i \in DOMAIN steps : i \in DOMAIN steps' /\ steps'[i] = steps[i]

C8_IdempotentWrapping == []OncePerOccurrence /\ [][OperandsKept]_vars

\* first >> first, piped: the right operand is Step(first), first was applied twice
C8_Witness ==
    /\ Returned
    /\ IsChain(arg)
    /\ steps[Right(arg)].f = StepObject(Left(arg))
    /\ Left(arg) = 1
    /\ Started(log) = <<"first", "first">>

(***************************************************************************)
(* C9. Error propagation without rollback: an error raised by a predicate  *)
(* or a wrapped function reaches the caller of context >> chain, no later  *)
(* step runs, and what the earlier steps wrote stays; a run either applies *)
(* every step or raises the first error.                                   *)
(***************************************************************************)
\* the context after the first k - 1 steps of the chain, applied one by one
AfterFirst(k) ==
    CallTuple(steps, SubSeq(Leaves(steps, arg), 1, k - 1), 1, <<before>>, <<>>, <<>>)

C9_ErrorPropagation ==
    Piped =>
        /\ (\E i \in DOMAIN log : log[i].ev = "raise") <=> exc # ""
        /\ exc # "" =>
              /\ log[Len(log)].ev = "raise"
              /\ Len(Started(log)) >= 1
              /\ IsPrefix(Started(log), LeafNames(steps, arg))
              /\ AfterFirst(Len(Started(log))).exc = ""
              /\ AfterFirst(Len(Started(log))).dicts = dicts
        /\ exc = "" => Started(log) = LeafNames(steps, arg)

\* first wrote x, then second failed, and the last step of the chain never ran
C9_Witness ==
    /\ Piped
    /\ exc = "TypeError"
    /\ Started(log) = <<"first", "second">>
    /\ Len(Leaves(steps, arg)) = 3
    /\ before = Dict1("x", 2)
    /\ dicts = <<Dict1("x", 1)>>

(***************************************************************************)
(* C10. Asynchronous step in a synchronous chain: a Step that              *)
(* conditional_func or conditional_proc built from an asynchronous         *)
(* function, applied through Step.__call__, only makes a coroutine that is *)
(* never awaited: its predicate is not evaluated, its function does not    *)
(* run, it writes no key and raises nothing, the steps after it run, and   *)
(* the same context is returned.                                           *)
(***************************************************************************)
IsAsyncLeaf(s) == steps[s].f.func.isasync
IsSyncLeaf(s) == ~IsAsyncLeaf(s)
HasAsyncLeaf == \E i \in DOMAIN Leaves(steps, arg) : IsAsyncLeaf(Leaves(steps, arg)[i])

\* the chain without its asynchronous steps, applied one by one
SyncOnly ==
    CallTuple(steps, SelectSeq(Leaves(steps, arg), IsSyncLeaf), 1, <<before>>, <<>>, <<>>)

====
